---- MODULE Spec2Model ----
(***************************************************************************)
(* Model of the IOtech digital I/O driver (class IOtech, a Gpib device).   *)
(*                                                                         *)
(* A Python string is a sequence of one-character strings, a Python value  *)
(* is a record tagged with its type (field t), and a call's outcome is a   *)
(* record [raised, value, wire]: the exception that escaped the call       *)
(* ("none" when it returned), the value returned, and the transport        *)
(* operations the call performed, in order.                                *)
(***************************************************************************)
EXTENDS Integers, Sequences, FiniteSets, TLC

VARIABLES
  op,       \* the operation whose outcome the caller holds, "idle" when
            \* it holds none
  arg,      \* the operation's arguments
  raised,   \* the exception that escaped it, "none" when it returned
  value,    \* the value it returned (None when it raised)
  wire,     \* the transport operations it performed, in order
  status    \* self.status, the last status snapshot

vars == <<op, arg, raised, value, wire, status>>

\* ------------------------------------------------------------ bounds

\* longest raw command string handed to Write
MaxLen == 4
\* most mnemonics in one command batch
MaxCmds == 3
\* most <letter><digits> fields in a status reply
MaxTokens == 3

\* ------------------------------------------------------ Python values

PyNone == [t |-> "None"]
PyBool(b) == [t |-> "bool", v |-> b]
PyStr(s) == [t |-> "str", v |-> s]
PyList(l) == [t |-> "list", v |-> l]
PyInt(n) == [t |-> "int", v |-> n]
PyDict(d) == [t |-> "dict", v |-> d]

Returned(v, w) == [raised |-> "none", value |-> v, wire |-> w]
Raised(e, w) == [raised |-> e, value |-> PyNone, wire |-> w]

\* ---------------------------------------------------------- strings

CR == "\r"
Whitespace == {" ", "\t", "\n", CR}
DigitChars == <<"0", "1", "2", "3", "4", "5", "6", "7", "8", "9">>
UpperChars == {"A", "B", "C", "D", "E", "F", "G", "H", "I", "J", "K", "L", "M",
               "N", "O", "P", "Q", "R", "S", "T", "U", "V", "W", "X", "Y", "Z"}
LowerChars == {"a", "b", "c", "d", "e", "f", "g", "h", "i", "j", "k", "l", "m",
               "n", "o", "p", "q", "r", "s", "t", "u", "v", "w", "x", "y", "z"}

isalpha(c) == c \in UpperChars \cup LowerChars
isdigit(c) == \E i \in 1..10 : DigitChars[i] = c
DigitVal(c) == (CHOOSE i \in 1..10 : DigitChars[i] = c) - 1

RECURSIVE Concat(_)
\* "".join(parts)
Concat(parts) ==
  IF parts = <<>> THEN <<>> ELSE Head(parts) \o Concat(Tail(parts))

RECURSIVE NatToStr(_)
NatToStr(n) ==
  IF n < 10 THEN <<DigitChars[n + 1]>>
  ELSE NatToStr(n \div 10) \o <<DigitChars[(n % 10) + 1]>>

\* str(n) of an int
str(n) == IF n < 0 THEN <<"-">> \o NatToStr(-n) ELSE NatToStr(n)

RECURSIVE lstrip(_)
lstrip(s) ==
  IF s # <<>> /\ Head(s) \in Whitespace THEN lstrip(Tail(s)) ELSE s

RECURSIVE rstrip(_)
rstrip(s) ==
  IF s # <<>> /\ s[Len(s)] \in Whitespace
  THEN rstrip(SubSeq(s, 1, Len(s) - 1)) ELSE s

\* s.strip()
strip(s) == rstrip(lstrip(s))

\* the characters of s at positions from..to, those past its end left out,
\* as Python's slices do
Slice(s, from, to) ==
  IF from > Len(s) THEN <<>>
  ELSE SubSeq(s, from, IF to > Len(s) THEN Len(s) ELSE to)

RECURSIVE SplitFrom(_, _)
\* s.split() with the word being read in cur: runs of whitespace separate
\* the words and no word is empty
SplitFrom(s, cur) ==
  IF s = <<>> THEN (IF cur = <<>> THEN <<>> ELSE <<cur>>)
  ELSE IF Head(s) \in Whitespace
       THEN (IF cur = <<>> THEN <<>> ELSE <<cur>>) \o SplitFrom(Tail(s), <<>>)
       ELSE SplitFrom(Tail(s), Append(cur, Head(s)))

split(s) == SplitFrom(s, <<>>)

\* ------------------------------------------------------- transport

\* self.write(data) and self.read() of the Gpib base class: each either
\* completes or raises the transport's error
WriteEvent(data, fault) == [io |-> "write", data |-> data, fault |-> fault]
ReadEvent(data, fault) == [io |-> "read", data |-> data, fault |-> fault]

\* ------------------------------------------------------------ Write

RECURSIVE JoinCommands(_)
\* the loop of Write over the list of commands: each one that is not
\* empty, followed by "X"
JoinCommands(commands) ==
  IF commands = <<>> THEN <<>>
  ELSE (IF Head(commands) # <<>> THEN Head(commands) \o <<"X">> ELSE <<>>)
       \o JoinCommands(Tail(commands))

\* Write's send of the command string: True, or False when the transport
\* raises
SendFrame(command_string, fault) ==
  Returned(PyBool(~fault), <<WriteEvent(command_string \o <<CR>>, fault)>>)

\* Write(command_list); fault: whether the transport's write raises
Write(command_list, fault) ==
  IF command_list.t = "str"
  THEN LET s == command_list.v
           n == Len(s)
       IN IF \E i \in 1..n : s[i] = " "
          THEN \* a space separated string: split it and join with "X"
               SendFrame(JoinCommands(split(s)), fault)
          ELSE IF n = 0
          THEN \* command_list[-1] of the empty string
               Raised("IndexError", <<>>)
          ELSE IF s[n] # "X" /\ n = 1
          THEN \* command_list[-2] of a one-character string
               Raised("IndexError", <<>>)
          ELSE IF s[n] = "X" \/ <<s[n - 1]>> = <<"X", CR>>
          THEN \* passed on as is, less a "\r" at its end
               SendFrame(IF s[n] = CR THEN SubSeq(s, 1, n - 1) ELSE s, fault)
          ELSE \* a single command
               SendFrame(s \o <<"X">>, fault)
  ELSE \* not a str: command_string stays "" and the local name commands
       \* was never bound
       Raised("UnboundLocalError", <<>>)

\* ------------------------------------------------- Read, Ask

\* b run after a: a's exception ends the call, else b's outcome with
\* the transport operations of both
Then(a, b) ==
  IF a.raised # "none" THEN a
  ELSE [raised |-> b.raised, value |-> b.value, wire |-> a.wire \o b.wire]

\* Read(); reply: what the transport's read returns, fault: whether it
\* raises. "Error: "+details adds the exception object to a str
Read(reply, fault) ==
  IF fault
  THEN Raised("TypeError", <<ReadEvent(<<>>, TRUE)>>)
  ELSE Returned(PyStr(reply), <<ReadEvent(reply, FALSE)>>)

\* Ask(query)
Ask(query, wfault, reply, rfault) ==
  LET w == Write(query, wfault)
  IN IF w.raised # "none" THEN w
     ELSE IF w.value.v
     THEN LET r == Read(reply, rfault)
          IN Then(w, IF r.raised # "none" THEN r
                     ELSE Returned(PyStr(strip(r.value.v)), r.wire))
     ELSE Returned(PyNone, w.wire)

\* configure(configuration)
configure(configuration, fault) ==
  LET w == Write(PyStr(<<"C">> \o str(configuration)), fault)
  IN IF w.raised # "none" THEN w
     ELSE Returned(PyBool(w.value.v), w.wire)

\* write_port with the port deselected before the data is written
write_port_deselect_first(port, val, f1, f2, f3) ==
  Then(Write(PyStr(<<"P">> \o str(port) \o <<" ", "F", "3">>), f1),
  Then(Write(PyStr(<<"P", "0", " ", "F", "0">>), f2),
  Then(Write(PyStr(<<"D">> \o str(val) \o <<"Z">>), f3),
       Returned(PyNone, <<>>))))

\* write_port(port, value); f1, f2, f3: whether each of the transport's
\* three writes raises
write_port(port, val, f1, f2, f3) ==
  Then(Write(PyStr(<<"P">> \o str(port) \o <<" ", "F", "3">>), f1),
  Then(Write(PyStr(<<"D">> \o str(val) \o <<"Z">>), f2),
  Then(Write(PyStr(<<"P", "0", " ", "F", "0">>), f3),
       Returned(PyNone, <<>>))))

\* ------------------------------------------------------- get_status

\* responses[command] = value
DictSet(d, k, v) ==
  [x \in DOMAIN d \cup {k} |-> IF x = k THEN v ELSE d[x]]

\* one pass of get_status's loop over the characters after the version;
\* st: in_command, command, value and responses before the pass
ParseChar(st, char) ==
  LET s1 == IF ~st.in_command /\ isalpha(char)
            THEN [st EXCEPT !.command = char, !.in_command = TRUE,
                            !.value = <<>>]
            ELSE st
  IN IF ~s1.in_command THEN s1
     ELSE IF isdigit(char) \/ char = "."
     THEN [s1 EXCEPT !.value = Append(@, char)]
     ELSE IF char # CR
     THEN [s1 EXCEPT !.responses = DictSet(@, s1.command, s1.value),
                     !.command = char, !.value = <<>>]
     ELSE s1

RECURSIVE ParseLoop(_, _)
ParseLoop(st, chars) ==
  IF chars = <<>> THEN st
  ELSE ParseLoop(ParseChar(st, Head(chars)), Tail(chars))

\* the responses of get_status: the text of each entry, before conversion
ParseResponses(text) ==
  ParseLoop([in_command |-> FALSE, command |-> "", value |-> <<>>,
             responses |-> [k \in {"Version"} |-> Slice(text, 1, 3)]],
            Slice(text, 4, Len(text))).responses

RECURSIVE DigitsToNat(_)
DigitsToNat(s) ==
  IF s = <<>> THEN 0
  ELSE 10 * DigitsToNat(SubSeq(s, 1, Len(s) - 1)) + DigitVal(s[Len(s)])

AllDigits(s) == \A i \in 1..Len(s) : isdigit(s[i])

\* int(s) and float(s) accept s made of digits and "." (all that
\* get_status stores, and all the version prefixes used here) when:
IsIntLiteral(s) == s # <<>> /\ AllDigits(s)
IsFloatLiteral(s) ==
  /\ \A i \in 1..Len(s) : isdigit(s[i]) \/ s[i] = "."
  /\ \E i \in 1..Len(s) : isdigit(s[i])
  /\ Cardinality({i \in 1..Len(s) : s[i] = "."}) <= 1

RECURSIVE DropZeros(_)
DropZeros(s) ==
  IF s # <<>> /\ s[Len(s)] = "0" THEN DropZeros(SubSeq(s, 1, Len(s) - 1))
  ELSE s

\* float(s) of a float literal: its whole part and its decimals
PyFloat(s) ==
  LET dot == IF \E i \in 1..Len(s) : s[i] = "."
             THEN CHOOSE i \in 1..Len(s) : s[i] = "." ELSE Len(s) + 1
  IN [t |-> "float", whole |-> DigitsToNat(SubSeq(s, 1, dot - 1)),
      decimals |-> DropZeros(SubSeq(s, dot + 1, Len(s)))]

\* get_status's conversion of the responses; an entry that does not
\* convert raises ValueError
ConvertResponses(responses) ==
  IF /\ IsFloatLiteral(responses["Version"])
     /\ \A k \in DOMAIN responses \ {"Version"} : IsIntLiteral(responses[k])
  THEN Returned(PyDict([k \in DOMAIN responses |->
                         IF k = "Version" THEN PyFloat(responses[k])
                         ELSE PyInt(DigitsToNat(responses[k]))]), <<>>)
  ELSE Raised("ValueError", <<>>)

\* get_status(); the value returned is also the new self.status.
\* Ask's None (the send failed) has no slice: TypeError
get_status(wfault, reply, rfault) ==
  LET a == Ask(PyStr(<<"U", "0">>), wfault, reply, rfault)
  IN IF a.raised # "none" THEN a
     ELSE IF a.value.t = "None" THEN Raised("TypeError", a.wire)
     ELSE Then(a, ConvertResponses(ParseResponses(a.value.v)))

\* ---------------------------------------------------- status readers

\* the class's table ports_out
ports_out == [c \in 0..5 |-> [p \in 1..5 |-> p <= c]]

\* the keys of the class's table commands
commands == {"A", "B", "C", "D", "E", "F", "G", "H", "I", "K", "M", "P", "Q",
             "R", "T", "U", "X", "Y"}

\* output_port(): self.ports_out[self.status['C']]
output_port(st) ==
  IF "C" \notin DOMAIN st THEN Raised("KeyError", <<>>)
  ELSE IF st["C"].v \notin DOMAIN ports_out THEN Raised("KeyError", <<>>)
  ELSE Returned(PyDict(ports_out[st["C"].v]), <<>>)

\* display_status(): a line for each code, looked up in commands
display_status(st) ==
  IF \A code \in DOMAIN st \ {"Version"} : code \in commands
  THEN Returned(PyNone, <<>>)
  ELSE Raised("KeyError", <<>>)

\* ---------------------------------------------------------- the bits

\* the width of the card's bit field
NBits == 40
\* the ports of the card
NPorts == 5

\* get_bit_state(bit): bool() of what Ask returns, None or a str
get_bit_state(bit, wfault, reply, rfault) ==
  LET a == Ask(PyStr(<<"U">> \o str(bit)), wfault, reply, rfault)
  IN IF a.raised # "none" THEN a
     ELSE Returned(PyBool(a.value.t = "str" /\ a.value.v # <<>>), a.wire)

\* set_bit(bit) and clr_bit(bit): the port is computed, then the global
\* name get_port_directions is looked up, and the module defines none
set_bit(bit) ==
  LET port == ((bit - 1) \div 8) + 1
  IN Raised("NameError", <<>>)

clr_bit(bit) ==
  LET port == ((bit - 1) \div 8) + 1
  IN Raised("NameError", <<>>)

\* sleep(pause), kept in the record of the call
sleep == Returned(PyNone, <<[io |-> "sleep"]>>)

\* pulse_bit(bit, low, pause)
pulse_bit(bit, low, wfault, reply, rfault) ==
  LET g == get_bit_state(bit, wfault, reply, rfault)
  IN IF g.raised # "none" THEN g
     ELSE IF low
     THEN Then(IF ~g.value.v THEN Then(g, Then(set_bit(bit), sleep)) ELSE g,
          Then(clr_bit(bit), Then(sleep, Then(set_bit(bit),
               Returned(PyNone, <<>>)))))
     ELSE Then(IF g.value.v THEN Then(g, Then(clr_bit(bit), sleep)) ELSE g,
          Then(set_bit(bit), Then(sleep, Then(clr_bit(bit),
               Returned(PyNone, <<>>)))))

\* An integer too wide for the checker's machine integers is the sequence
\* of its hexadecimal digits' values, lowest first, the highest not 0.
HexChars == <<"0", "1", "2", "3", "4", "5", "6", "7", "8", "9",
              "A", "B", "C", "D", "E", "F">>
LowerHexChars == <<"0", "1", "2", "3", "4", "5", "6", "7", "8", "9",
                   "a", "b", "c", "d", "e", "f">>
IsHexChar(c) == \E i \in 1..16 : HexChars[i] = c \/ LowerHexChars[i] = c
HexVal(c) ==
  (CHOOSE i \in 1..16 : HexChars[i] = c \/ LowerHexChars[i] = c) - 1

RECURSIVE Normal(_)
\* x without the zeros at its high end
Normal(x) ==
  IF x # <<>> /\ x[Len(x)] = 0 THEN Normal(SubSeq(x, 1, Len(x) - 1)) ELSE x

\* the integer a string of hexadecimal digits denotes
HexToBig(s) == Normal([i \in 1..Len(s) |-> HexVal(s[Len(s) + 1 - i])])

RECURSIVE BigOfNat(_)
BigOfNat(n) == IF n = 0 THEN <<>> ELSE <<n % 16>> \o BigOfNat(n \div 16)

RECURSIVE BigToNat(_)
BigToNat(x) == IF x = <<>> THEN 0 ELSE Head(x) + 16 * BigToNat(Tail(x))

RECURSIVE NatAnd(_, _)
\* a & b of two naturals
NatAnd(a, b) ==
  IF a = 0 \/ b = 0 THEN 0
  ELSE (a % 2) * (b % 2) + 2 * NatAnd(a \div 2, b \div 2)

\* x << n and x >> n, n a multiple of 4
BigShl(x, n) == IF x = <<>> THEN <<>> ELSE [i \in 1..(n \div 4) |-> 0] \o x
BigShr(x, n) == Slice(x, (n \div 4) + 1, Len(x))

\* x & y
BigAnd(x, y) ==
  LET n == IF Len(x) < Len(y) THEN Len(x) ELSE Len(y)
  IN Normal([i \in 1..n |-> NatAnd(x[i], y[i])])

PyBig(x) == [t |-> "int", big |-> x]

\* PortState with the mask and the shift counted in 4-bit steps
PortState_nibble_steps(response, port) ==
  LET mask == BigShl(BigOfNat(255), port * 4)
  IN BigToNat(BigShr(BigAnd(response, mask), port * 4))

\* the value of port+1 in get_all_bits's loop
PortState(response, port) ==
  LET mask == BigShl(BigOfNat(255), port * 8)
  IN BigToNat(BigShr(BigAnd(response, mask), port * 8))

\* get_all_bits(formatted, groups); Math.decimal_to_binary is another
\* package's, and its result is kept as the call made
get_all_bits(formatted, groups, reply, rfault) ==
  LET r == Read(reply, rfault)
      bits == strip(r.value.v)
      response == HexToBig(bits)
  IN IF r.raised # "none" THEN r
     ELSE IF bits = <<>> \/ \E i \in 1..Len(bits) : ~IsHexChar(bits[i])
     THEN \* eval of "0x" and what is no number
          Raised("SyntaxError", r.wire)
     ELSE IF formatted
     THEN Returned([t |-> "decimal_to_binary", number |-> response,
                    width |-> NBits, grouped |-> groups], r.wire)
     ELSE IF groups # 0
     THEN Returned(PyDict([p \in 1..NPorts |->
                            PyInt(PortState(response, p - 1))]), r.wire)
     ELSE Returned(PyBig(response), r.wire)

\* ------------------------------------------------------ construction

\* IOtech(device, configuration): configure, write_port(1, 0b1111) and
\* get_status, with what the transport does at each of its operations
Construct(configuration, f1, f2, f3, f4, wfault, reply, rfault) ==
  Then(configure(configuration, f1),
  Then(write_port(1, 15, f2, f3, f4),
       get_status(wfault, reply, rfault)))

\* ------------------------------------------------------- the inputs

\* the strings of at most n characters of alphabet
Strings(alphabet, n) == UNION {[1..k -> alphabet] : k \in 0..n}

RECURSIVE Join(_, _)
\* sep.join(parts)
Join(parts, sep) ==
  IF parts = <<>> THEN <<>>
  ELSE IF Len(parts) = 1 THEN Head(parts)
  ELSE Head(parts) \o sep \o Join(Tail(parts), sep)

\* the characters Write tells apart (" ", "X", "\r") and two it does not
WriteAlphabet == {"A", "3", "X", " ", CR}
Mnemonics == {<<"A", "3">>, <<"U", "3">>, <<"U", "5">>}
MnemonicSeqs == UNION {[1..k -> Mnemonics] : k \in 0..MaxCmds}

\* the three forms of a batch of mnemonics that Write documents
ListForm(ms) == PyList(ms)
SpacedForm(ms) == PyStr(Join(ms, <<" ">>))
VerbatimForm(ms) == PyStr(Concat([i \in 1..Len(ms) |-> ms[i] \o <<"X">>]))

WriteInputs ==
  {PyStr(s) : s \in Strings(WriteAlphabet, MaxLen)}
  \cup {ListForm(ms) : ms \in MnemonicSeqs}
  \cup {SpacedForm(ms) : ms \in MnemonicSeqs \ {<<>>}}
  \cup {VerbatimForm(ms) : ms \in MnemonicSeqs \ {<<>>}}

Bits == 1..NBits
Configurations == DOMAIN ports_out
PortValues == {0, 15, 170, 255}

\* what the card may send: with or without the "\r" it ends its lines with
Terminators == {<<>>, <<CR>>}

\* replies to U<bit>
BitReplies == {<<"0">> \o e : e \in Terminators}
              \cup {<<"1">> \o e : e \in Terminators}

\* status replies: a version and <letter><digits> fields
VersionPrefixes == {<<"1", "2", "3">>, <<"1", ".", "0">>}
StatusTokens == {<<"C", "1">>, <<"C", "0">>, <<"D", "2", "5", "5">>,
                 <<"U", "0">>}
StatusReplies ==
  {v \o Concat(ts) \o e :
     v \in VersionPrefixes,
     ts \in UNION {[1..k -> StatusTokens] : k \in 0..MaxTokens},
     e \in Terminators}

\* the replies of the card the instance was made with
InitReplies ==
  {<<"1", "2", "3", "C", "1", "D", "2", "5", "5", "U", "0">>,
   <<"1", ".", "0", "C", "1", "D", "1", "5", "U", "0", CR>>}

\* replies to a read of all the bits: ten hexadecimal digits, two a port
PortBytes == {<<"0", "0">>, <<"F", "F">>, <<"a", "5">>}
HexReplies ==
  {Concat(bs) \o e : bs \in [1..NPorts -> PortBytes], e \in Terminators}

Queries ==
  {PyStr(<<"U", "0">>), PyStr(<<"U", "5", "X">>), PyStr(<<"U">>),
   PyList(<<<<"U", "5">>>>)}

\* ------------------------------------------------------ the machine

\* the record of a call
Called(name, a, out) ==
  /\ op' = name
  /\ arg' = a
  /\ raised' = out.raised
  /\ value' = out.value
  /\ wire' = out.wire

\* the instance as its construction leaves it: get_status did not raise
Init ==
  \E f1, f2, f3, f4 \in BOOLEAN, reply \in InitReplies :
    LET c == Construct(1, f1, f2, f3, f4, FALSE, reply, FALSE)
    IN /\ c.raised = "none"
       /\ op = "__init__"
       /\ arg = [configuration |-> 1]
       /\ raised = "none"
       /\ value = PyNone
       /\ wire = c.wire
       /\ status = c.value.v

CallWrite ==
  /\ op = "idle"
  /\ \E command_list \in WriteInputs, fault \in BOOLEAN :
       /\ Called("Write", [command_list |-> command_list],
                 Write(command_list, fault))
       /\ UNCHANGED status

CallConfigure ==
  /\ op = "idle"
  /\ \E configuration \in Configurations, fault \in BOOLEAN :
       /\ Called("configure", [configuration |-> configuration],
                 configure(configuration, fault))
       /\ UNCHANGED status

CallWritePort ==
  /\ op = "idle"
  /\ \E port \in Configurations, val \in PortValues, f1, f2, f3 \in BOOLEAN :
       /\ Called("write_port", [port |-> port, value |-> val],
                 write_port(port, val, f1, f2, f3))
       /\ UNCHANGED status

CallRead ==
  /\ op = "idle"
  /\ \E reply \in BitReplies \cup HexReplies, fault \in BOOLEAN :
       /\ Called("Read", <<>>, Read(reply, fault))
       /\ UNCHANGED status

CallAsk ==
  /\ op = "idle"
  /\ \E query \in Queries, wfault, rfault \in BOOLEAN, reply \in BitReplies :
       /\ Called("Ask", [query |-> query], Ask(query, wfault, reply, rfault))
       /\ UNCHANGED status

CallGetStatus ==
  /\ op = "idle"
  /\ \E wfault, rfault \in BOOLEAN, reply \in StatusReplies :
       LET out == get_status(wfault, reply, rfault)
       IN /\ Called("get_status", <<>>, out)
          /\ status' = IF out.raised = "none" THEN out.value.v ELSE status

CallOutputPort ==
  /\ op = "idle"
  /\ Called("output_port", <<>>, output_port(status))
  /\ UNCHANGED status

CallDisplayStatus ==
  /\ op = "idle"
  /\ Called("display_status", <<>>, display_status(status))
  /\ UNCHANGED status

CallGetBitState ==
  /\ op = "idle"
  /\ \E bit \in Bits, wfault, rfault \in BOOLEAN, reply \in BitReplies :
       /\ Called("get_bit_state", [bit |-> bit],
                 get_bit_state(bit, wfault, reply, rfault))
       /\ UNCHANGED status

CallGetAllBits ==
  /\ op = "idle"
  /\ \E formatted \in BOOLEAN, groups \in {0, 8}, reply \in HexReplies,
        rfault \in BOOLEAN :
       /\ Called("get_all_bits", [formatted |-> formatted, groups |-> groups],
                 get_all_bits(formatted, groups, reply, rfault))
       /\ UNCHANGED status

CallSetBit ==
  /\ op = "idle"
  /\ \E bit \in Bits :
       /\ Called("set_bit", [bit |-> bit], set_bit(bit))
       /\ UNCHANGED status

CallClrBit ==
  /\ op = "idle"
  /\ \E bit \in Bits :
       /\ Called("clr_bit", [bit |-> bit], clr_bit(bit))
       /\ UNCHANGED status

CallPulseBit ==
  /\ op = "idle"
  /\ \E bit \in Bits, low \in BOOLEAN, wfault, rfault \in BOOLEAN,
        reply \in BitReplies :
       /\ Called("pulse_bit", [bit |-> bit, low |-> low],
                 pulse_bit(bit, low, wfault, reply, rfault))
       /\ UNCHANGED status

\* the caller is done with the outcome it holds and may call again
Continue ==
  /\ op # "idle"
  /\ op' = "idle"
  /\ arg' = <<>>
  /\ raised' = "none"
  /\ value' = PyNone
  /\ wire' = <<>>
  /\ UNCHANGED status

Next ==
  \/ CallWrite
  \/ CallConfigure
  \/ CallWritePort
  \/ CallRead
  \/ CallAsk
  \/ CallGetStatus
  \/ CallOutputPort
  \/ CallDisplayStatus
  \/ CallGetBitState
  \/ CallGetAllBits
  \/ CallSetBit
  \/ CallClrBit
  \/ CallPulseBit
  \/ Continue

Spec == Init /\ [][Next]_vars

\* ------------------------------------------------------- the claims

\* the frame of a batch of mnemonics: each followed by "X", then one "\r"
FrameOf(ms) == Concat([i \in 1..Len(ms) |-> ms[i] \o <<"X">>]) \o <<CR>>

\* the call made exactly one transport write, of frame
WroteOnce(frame) ==
  /\ Len(wire) = 1
  /\ wire[1].io = "write"
  /\ wire[1].data = frame

SameInput(x, y) == x.t = y.t /\ x.v = y.v

\* C1: for every non-empty batch of mnemonics, Write of its list form, of
\* its space-separated form and of its verbatim form each return after
\* exactly one transport write, of the same frame: the mnemonics each
\* followed by "X", then "\r".
C1_ThreeFormsOneFrame ==
  \A ms \in MnemonicSeqs \ {<<>>} :
    \A form \in {ListForm(ms), SpacedForm(ms), VerbatimForm(ms)} :
      (op = "Write" /\ SameInput(arg.command_list, form))
        => (raised = "none" /\ WroteOnce(FrameOf(ms)))

\* the part of C1 the code keeps: the two string forms give the frame
C1_StringFormsOneFrame ==
  \A ms \in MnemonicSeqs \ {<<>>} :
    \A form \in {SpacedForm(ms), VerbatimForm(ms)} :
      (op = "Write" /\ SameInput(arg.command_list, form))
        => (raised = "none" /\ WroteOnce(FrameOf(ms)))

RECURSIVE DigitRun(_)
\* how many digits s starts with
DigitRun(s) ==
  IF s # <<>> /\ isdigit(Head(s)) THEN 1 + DigitRun(Tail(s)) ELSE 0

RECURSIVE FieldsOf(_)
\* the <letter><digits> fields of the text after a status reply's version
FieldsOf(s) ==
  IF s = <<>> THEN <<>>
  ELSE LET n == DigitRun(Tail(s))
       IN <<[code |-> Head(s), digits |-> SubSeq(s, 2, n + 1)]>>
          \o FieldsOf(SubSeq(s, n + 2, Len(s)))

\* the text the status query read, when its send and its read completed
StatusText == strip(wire[2].data)
StatusRead ==
  /\ op = "get_status"
  /\ Len(wire) = 2
  /\ ~wire[1].fault
  /\ ~wire[2].fault

\* C2: the status query returns a mapping with the key "Version" and, for
\* every <letter><digits> field of the reply after the 3-character version,
\* the last one included, an entry whose value is the integer the field's
\* digits denote (stated for replies whose fields have distinct letters).
C2_EveryFieldReported ==
  StatusRead =>
    LET fs == FieldsOf(Slice(StatusText, 4, Len(StatusText)))
    IN (/\ \A i \in 1..Len(fs) : isalpha(fs[i].code) /\ fs[i].digits # <<>>
        /\ \A i, j \in 1..Len(fs) : fs[i].code = fs[j].code => i = j)
       => /\ raised = "none"
          /\ value.t = "dict"
          /\ "Version" \in DOMAIN value.v
          /\ \A i \in 1..Len(fs) :
               /\ fs[i].code \in DOMAIN value.v
               /\ value.v[fs[i].code] = PyInt(DigitsToNat(fs[i].digits))

\* C3: whatever it is given, Write returns True when the transport's write
\* completes and False when it raises, and no exception escapes it.
C3_WriteNeverRaises ==
  op = "Write" =>
    /\ raised = "none"
    /\ Len(wire) = 1
    /\ wire[1].io = "write"
    /\ value = PyBool(~wire[1].fault)

\* the frame C4 gives a string with no separator
ExpectedFrame(s) ==
  LET n == Len(s)
  IN IF n >= 1 /\ s[n] = "X" THEN s \o <<CR>>
     ELSE IF n >= 2 /\ s[n - 1] = "X" /\ s[n] = CR THEN s
     ELSE s \o <<"X", CR>>

\* C4: of a string with no separator, Write transmits the string itself,
\* less a trailing "\r", and one "\r" when the string ends in "X" or in "X"
\* and a "\r", and the string, "X" and "\r" otherwise (stated for the calls
\* that reach the transport).
C4_FrameOfString ==
  (/\ op = "Write"
   /\ arg.command_list.t = "str"
   /\ \A i \in 1..Len(arg.command_list.v) : arg.command_list.v[i] # " "
   /\ raised = "none")
  => WroteOnce(ExpectedFrame(arg.command_list.v))

\* the command frames of a call: what it wrote after its first write
CommandsSent ==
  [i \in 1..Len(SelectSeq(Tail(wire), LAMBDA e : e.io = "write")) |->
     SelectSeq(Tail(wire), LAMBDA e : e.io = "write")[i].data]

SetFrame(bit) == <<"A">> \o str(bit) \o <<"X", CR>>
ClrFrame(bit) == <<"B">> \o str(bit) \o <<"X", CR>>

\* C5: pulse_bit runs to completion whatever the bit's state: with low it
\* sends set (only when the bit is not high), clear, set, and without low
\* clear (only when the bit is high), set, clear (stated for the calls
\* whose transport raises nothing).
C5_PulseCompletes ==
  (op = "pulse_bit" /\ \A i \in 1..Len(wire) : ~(wire[i].io # "sleep" /\ wire[i].fault))
  => /\ raised = "none"
     /\ LET a == SetFrame(arg.bit)
            b == ClrFrame(arg.bit)
        IN IF arg.low THEN CommandsSent \in {<<a, b, a>>, <<b, a>>}
           ELSE CommandsSent \in {<<b, a, b>>, <<a, b>>}

\* C6: Read makes exactly one transport read, and when that read raises
\* Read returns a string that starts with "Error: ": nothing escapes it.
C6_ReadFaultReturned ==
  op = "Read" =>
    /\ Len(wire) = 1
    /\ wire[1].io = "read"
    /\ raised = "none"
    /\ wire[1].fault =>
         /\ value.t = "str"
         /\ Slice(value.v, 1, 7) = <<"E", "r", "r", "o", "r", ":", " ">>

\* the frames of a call's transport operations, when all are writes
AllWrites == \A i \in 1..Len(wire) : wire[i].io = "write"
FramesWritten == [i \in 1..Len(wire) |-> wire[i].data]

\* C7, as amended: write_port(port, value) returns after exactly three
\* transport operations, all writes, of these frames in this order: the
\* port selected with format 3 (P<port>X F3X), the data and the execute
\* terminator (D<value>Z X), port 0 with format 0 (P0X F0X).
C7_ThreeFramesInOrder ==
  op = "write_port" =>
    /\ raised = "none"
    /\ AllWrites
    /\ FramesWritten =
         << <<"P">> \o str(arg.port) \o <<"X", "F", "3", "X", CR>>,
            <<"D">> \o str(arg.value) \o <<"Z", "X", CR>>,
            <<"P", "0", "X", "F", "0", "X", CR>> >>

\* C7 as the claim has it: the data frame is D<value> followed by the
\* execute terminator X.
C7_DataFrameIsDValueX ==
  op = "write_port" =>
    /\ raised = "none"
    /\ AllWrites
    /\ FramesWritten =
         << <<"P">> \o str(arg.port) \o <<"X", "F", "3", "X", CR>>,
            <<"D">> \o str(arg.value) \o <<"X", CR>>,
            <<"P", "0", "X", "F", "0", "X", CR>> >>

\* write_port(2, 170) has been called and has sent its three frames
C7_Witness ==
  /\ op = "write_port"
  /\ arg.port = 2
  /\ arg.value = 170
  /\ Len(wire) = 3
  /\ wire[2].data = <<"D", "1", "7", "0", "Z", "X", CR>>

\* C8: a transport fault during the status query, at the send of U0 or at
\* the read that follows, does not make the status query raise.
C8_StatusFaultHandled ==
  (op = "get_status" /\ \E i \in 1..Len(wire) : wire[i].fault)
  => raised = "none"

\* C9: get_bit_state returns True exactly when the reply to U<bit> reports
\* the bit high ("1"), and False when it reports it low ("0").
C9_BitStateIsReply ==
  (/\ op = "get_bit_state"
   /\ Len(wire) = 2
   /\ ~wire[2].fault
   /\ strip(wire[2].data) \in {<<"0">>, <<"1">>})
  => /\ raised = "none"
     /\ value = PyBool(strip(wire[2].data) = <<"1">>)

\* the ten hexadecimal digits get_all_bits read, and the values of the two
\* digits of port p, the first port the last two digits
HexRead == strip(wire[1].data)
HighDigit(p) == HexVal(HexRead[(NBits \div 4) + 1 - 2 * p])
LowDigit(p) == HexVal(HexRead[(NBits \div 4) + 2 - 2 * p])

====
